---- MODULE Spec2Model ----
(***************************************************************************)
(* Model of restore_credentials.py: the export run (build_datasources_csv) *)
(* and the update run (update_datasources_from_csv) against a Tableau      *)
(* Server whose responses are drawn nondeterministically.                  *)
(*                                                                         *)
(* One run starts in pc = "Idle" and is either an export run or an update  *)
(* run.  Every HTTP request is one step; the request and its response are  *)
(* appended to `calls`.  An uncaught Python exception ends the run in      *)
(* pc = "Aborted" with `error` naming the exception.                       *)
(***************************************************************************)
EXTENDS Integers, Sequences, FiniteSets, TLC

\* Longest listing the server returns, and longest input file (in rows).
MaxListing == 2
MaxRows == 2

\* Python's None (a csv.DictReader restval, an unset credential column).
None == "None"

\* The server's directory: site ids, data source ids, connection ids.
Sites == {"s1", "s2"}
Sources == {"d1", "d2"}
Conns == {"c1", "c2"}

\* site['contentUrl'] of a site; the Default site's content URL is empty.
ContentUrl(site_id) == IF site_id = "s1" THEN "" ELSE "sales"

\* Values a credential cell of the input file can hold.
UserCells == {None, "", "admin"}
PassCells == {None, "", "secret"}

\* The exceptions the update run raises while it reads the file.
UsernameError == "ValueError: Updated username must be provided"
PasswordError == "ValueError: Updated password must be provided"
TypeError == "TypeError: object of type 'NoneType' has no len()"
KeyError == "KeyError"

VARIABLES
    phase,          \* "idle", "export" or "update"
    pc,             \* position of the run
    error,          \* exception that ended the run, "" if none
    issued,         \* server side: content URL of every token handed out
    signedOut,      \* server side: tokens for which signout was requested
    token,          \* build_datasources_csv: token (0 = unset)
    site_token,     \* build_datasources_csv: site_token
    update_token,   \* update_datasources_from_csv: update_token
    sites,          \* build_datasources_csv: keys of the sites dict, in order
    site_i,         \* position of the `for site_id, site_data` loop
    sources,        \* build_datasources_csv: sources
    source_i,       \* position of the `for source in sources` loop
    datasources,    \* build_datasources_csv: datasources (the records)
    output_csv,     \* the destination file
    input_csv,      \* the rows of the input file read so far
    updates,        \* update_datasources_from_csv: updates
    pos,            \* positions of the three update loops
    calls,          \* every HTTP request issued, with its response
    log             \* the messages printed by the update loop

vars == <<phase, pc, error, issued, signedOut, token, site_token, update_token,
          sites, site_i, sources, source_i, datasources, output_csv, input_csv,
          updates, pos, calls, log>>

exportVars == <<token, site_token, sites, site_i, sources, source_i,
                datasources, output_csv>>
updateVars == <<update_token, input_csv, updates, pos, log>>

----------------------------------------------------------------------------
\* Any sequence over S of length at most n (the site listing as it is sent).
RawListings(S, n) == UNION {[1..k -> S] : k \in 0..n}

\* Sequences without repetition over S, of length at most n (a listing of
\* data sources or of connections: the server lists each item once).
Listings(S, n) ==
    {l \in RawListings(S, n) : \A a, b \in 1..Len(l) : a # b => l[a] # l[b]}

Range(s) == {s[k] : k \in 1..Len(s)}

\* One HTTP request and its response.
\*   status "ok":        the body has the expected member
\*   status "absent":    the collection key ('datasource', 'connection') or the
\*                       'connection' object of a PUT response is not there
\*   status "malformed": the body lacks the outer member the code indexes
Call(op, tok, url, site, ds, conn, user, pass, status, items, grant) ==
    [op |-> op, token |-> tok, url |-> url, site |-> site, ds |-> ds,
     conn |-> conn, user |-> user, pass |-> pass, status |-> status,
     items |-> items, grant |-> grant]

SignInCall(url, status, grant) ==
    Call("signin", 0, url, "", "", "", "", "", status, <<>>, grant)

SignOutCall(tok) ==
    Call("signout", tok, "", "", "", "", "", "", "ok", <<>>, 0)

Outstanding == {t \in 1..Len(issued) : t \notin signedOut}

----------------------------------------------------------------------------
(* get_api_token, logout, get_sites *)

\* The contentUrl put in the sign-in payload: '' unless one is given.
PayloadContentUrl(contentUrl) == IF contentUrl = None THEN "" ELSE contentUrl

\* Keys of the dict get_sites builds from the listing: one key per site id, in
\* the order of its first occurrence.
RECURSIVE DictKeys(_)
DictKeys(listing) ==
    IF listing = <<>> THEN <<>>
    ELSE LET front == DictKeys(SubSeq(listing, 1, Len(listing) - 1))
             last == listing[Len(listing)]
         IN IF last \in Range(front) THEN front ELSE Append(front, last)

----------------------------------------------------------------------------
(* build_datasources_csv *)

\* ExportRaise with the exception caught and the records so far written out.
ExportRaise_Swallowed == "WriteCsv"

\* Where an exception raised inside build_datasources_csv leaves the run: the
\* function has no try/except, so the exception ends it.
ExportRaise == "Aborted"

\* The content URL the per-site sign-in is given.
SiteSignInUrl(site_id) == ContentUrl(site_id)

\* ListingToken reusing the token of the site listing.
ListingToken_Root == token

\* The token attached to the two per-site listing requests.
ListingToken == site_token

\* AfterDatasources indexing ['datasource'] without testing for the key.
AfterDatasources_KeyRequired(status, items) ==
    IF status = "malformed" \/ status = "absent" THEN ExportRaise
    ELSE IF items = <<>> THEN "LogoutSite"
    ELSE "ListConnections"

\* What follows the data source listing of a site.
AfterDatasources(status, items) ==
    IF status = "malformed" THEN ExportRaise
    ELSE IF status = "absent" \/ items = <<>> THEN "LogoutSite"
    ELSE "ListConnections"

\* What follows the connection listing of one data source: only a body without
\* 'connections' raises.
AfterConnections(status) ==
    IF status = "malformed" THEN ExportRaise
    ELSE IF source_i = Len(sources) THEN "LogoutSite"
    ELSE "ListConnections"

\* ConnectionRecords keeping only the first connection of a data source.
ConnectionRecords_FirstOnly(site_id, source, connections) ==
    [k \in 1..(IF connections = <<>> THEN 0 ELSE 1) |->
        [site_id |-> site_id,
         site_content_url |-> ContentUrl(site_id),
         datasource_id |-> source,
         connection_id |-> connections[k],
         updated_username |-> None,
         updated_password |-> None]]

\* The records appended for the connections of one data source.
ConnectionRecords(site_id, source, connections) ==
    [k \in 1..Len(connections) |->
        [site_id |-> site_id,
         site_content_url |-> ContentUrl(site_id),
         datasource_id |-> source,
         connection_id |-> connections[k],
         updated_username |-> None,
         updated_password |-> None]]

\* csv.DictWriter writes None as the empty string.
CsvCell(v) == IF v = None THEN "" ELSE v

CsvRow(r) ==
    [site_id |-> CsvCell(r.site_id),
     site_content_url |-> CsvCell(r.site_content_url),
     datasource_id |-> CsvCell(r.datasource_id),
     connection_id |-> CsvCell(r.connection_id),
     updated_username |-> CsvCell(r.updated_username),
     updated_password |-> CsvCell(r.updated_password)]

\* token = get_api_token(USERNAME, PASSWORD)
BuildSignIn ==
    /\ pc = "Idle"
    /\ phase' = "export"
    /\ \E status \in {"ok", "malformed"} :
        IF status = "ok"
        THEN /\ issued' = Append(issued, PayloadContentUrl(None))
             /\ token' = Len(issued) + 1
             /\ calls' = Append(calls, SignInCall(PayloadContentUrl(None),
                                                  "ok", Len(issued) + 1))
             /\ pc' = "GetSites"
             /\ error' = error
        ELSE /\ calls' = Append(calls, SignInCall(PayloadContentUrl(None),
                                                  "malformed", 0))
             /\ pc' = ExportRaise
             /\ error' = KeyError
             /\ UNCHANGED <<issued, token>>
    /\ UNCHANGED <<signedOut, site_token, sites, site_i, sources, source_i,
                   datasources, output_csv>>
    /\ UNCHANGED updateVars

\* sites = get_sites(token)
GetSites ==
    /\ pc = "GetSites"
    /\ \/ \E listing \in RawListings(Sites, MaxListing) :
            /\ calls' = Append(calls, Call("sites", token, "", "", "", "", "",
                                           "", "ok", listing, 0))
            /\ sites' = DictKeys(listing)
            /\ pc' = "LogoutRoot"
            /\ error' = error
       \/ /\ calls' = Append(calls, Call("sites", token, "", "", "", "", "",
                                         "", "malformed", <<>>, 0))
          /\ pc' = ExportRaise
          /\ error' = KeyError
          /\ sites' = sites
    /\ UNCHANGED <<phase, issued, signedOut, token, site_token, site_i,
                   sources, source_i, datasources, output_csv>>
    /\ UNCHANGED updateVars

\* logout(token); datasources = []; the site loop starts
LogoutRoot ==
    /\ pc = "LogoutRoot"
    /\ calls' = Append(calls, SignOutCall(token))
    /\ signedOut' = signedOut \cup {token}
    /\ datasources' = <<>>
    /\ site_i' = 1
    /\ pc' = IF sites = <<>> THEN "WriteCsv" ELSE "SiteSignIn"
    /\ UNCHANGED <<phase, error, issued, token, site_token, sites, sources,
                   source_i, output_csv>>
    /\ UNCHANGED updateVars

\* site_token = get_api_token(USERNAME, PASSWORD, site_data['contentUrl'])
SiteSignIn ==
    /\ pc = "SiteSignIn"
    /\ LET url == PayloadContentUrl(SiteSignInUrl(sites[site_i])) IN
       \E status \in {"ok", "malformed"} :
        IF status = "ok"
        THEN /\ issued' = Append(issued, url)
             /\ site_token' = Len(issued) + 1
             /\ calls' = Append(calls, SignInCall(url, "ok", Len(issued) + 1))
             /\ pc' = "ListDatasources"
             /\ error' = error
        ELSE /\ calls' = Append(calls, SignInCall(url, "malformed", 0))
             /\ pc' = ExportRaise
             /\ error' = KeyError
             /\ UNCHANGED <<issued, site_token>>
    /\ UNCHANGED <<phase, signedOut, token, sites, site_i, sources, source_i,
                   datasources, output_csv>>
    /\ UNCHANGED updateVars

\* GET .../sites/{site_id}/datasources
ListDatasources ==
    /\ pc = "ListDatasources"
    /\ \E status \in {"ok", "absent", "malformed"} :
       \E items \in IF status = "ok" THEN Listings(Sources, MaxListing)
                    ELSE {<<>>} :
        /\ calls' = Append(calls, Call("datasources", ListingToken, "",
                                       sites[site_i], "", "", "", "", status,
                                       items, 0))
        /\ pc' = AfterDatasources(status, items)
        /\ error' = IF status = "malformed" THEN KeyError ELSE error
        /\ sources' = IF status = "ok" THEN items ELSE sources
        /\ source_i' = IF status = "ok" THEN 1 ELSE source_i
    /\ UNCHANGED <<phase, issued, signedOut, token, site_token, sites, site_i,
                   datasources, output_csv>>
    /\ UNCHANGED updateVars

\* GET .../datasources/{source['id']}/connections and the append loop
ListConnections ==
    /\ pc = "ListConnections"
    /\ \E status \in {"ok", "absent", "malformed"} :
       \E items \in IF status = "ok" THEN Listings(Conns, MaxListing)
                    ELSE {<<>>} :
        /\ calls' = Append(calls, Call("connections", ListingToken, "",
                                       sites[site_i], sources[source_i], "",
                                       "", "", status, items, 0))
        /\ pc' = AfterConnections(status)
        /\ error' = IF status = "malformed" THEN KeyError ELSE error
        /\ datasources' =
             IF status = "ok"
             THEN datasources \o ConnectionRecords(sites[site_i],
                                                   sources[source_i], items)
             ELSE datasources
        /\ source_i' = IF status = "malformed" THEN source_i ELSE source_i + 1
    /\ UNCHANGED <<phase, issued, signedOut, token, site_token, sites, site_i,
                   sources, output_csv>>
    /\ UNCHANGED updateVars

\* logout(site_token), then the next site or the end of the loop.  logout
\* ignores the response, so the step has one outcome.
LogoutSite ==
    /\ pc = "LogoutSite"
    /\ calls' = Append(calls, SignOutCall(site_token))
    /\ signedOut' = signedOut \cup {site_token}
    /\ site_i' = site_i + 1
    /\ pc' = IF site_i = Len(sites) THEN "WriteCsv" ELSE "SiteSignIn"
    /\ UNCHANGED <<phase, error, issued, token, site_token, sites, sources,
                   source_i, datasources, output_csv>>
    /\ UNCHANGED updateVars

\* with open(save_as, 'w'): writeheader(); writerows(datasources)
WriteCsv ==
    /\ pc = "WriteCsv"
    /\ output_csv' = [opened |-> TRUE,
                      rows |-> [k \in 1..Len(datasources) |->
                                    CsvRow(datasources[k])]]
    /\ pc' = "Done"
    /\ UNCHANGED <<phase, error, issued, signedOut, token, site_token, sites,
                   site_i, sources, source_i, datasources, calls>>
    /\ UNCHANGED updateVars

----------------------------------------------------------------------------
(* update_datasources_from_csv: reading the file *)

\* The rows an input file can hold: the columns of a record of the export,
\* with the two credential cells as the operator left them.
Rows ==
    [site_id : Sites, site_content_url : {ContentUrl(s) : s \in Sites},
     datasource_id : Sources, connection_id : Conns,
     updated_username : UserCells, updated_password : PassCells]

FileRows == {r \in Rows : r.site_content_url = ContentUrl(r.site_id)}

\* ValidateRow without the check of updated_password.
ValidateRow_UsernameOnly(row) ==
    IF row.updated_username = None THEN TypeError
    ELSE IF row.updated_username = "" THEN UsernameError
    ELSE "ok"

\* The two checks made on a row, in the order the code evaluates them:
\* len(cell) is evaluated before `cell is None`, and len(None) raises.
ValidateRow(row) ==
    IF row.updated_username = None THEN TypeError
    ELSE IF row.updated_username = "" THEN UsernameError
    ELSE IF row.updated_password = None THEN TypeError
    ELSE IF row.updated_password = "" THEN PasswordError
    ELSE "ok"

\* Position of the entry with this key in an insertion-ordered dict, 0 if none.
SiteIndex(upd, url) ==
    IF \E k \in 1..Len(upd) : upd[k].site_content_url = url
    THEN CHOOSE k \in 1..Len(upd) : upd[k].site_content_url = url
    ELSE 0

SourceIndex(dss, id) ==
    IF \E k \in 1..Len(dss) : dss[k].datasource_id = id
    THEN CHOOSE k \in 1..Len(dss) : dss[k].datasource_id = id
    ELSE 0

\* InsertRow making a new data source entry for every row.
InsertRow_NoMerge(upd, row) ==
    LET withSite ==
            IF SiteIndex(upd, row.site_content_url) = 0
            THEN Append(upd, [site_content_url |-> row.site_content_url,
                              site_id |-> row.site_id,
                              datasources |-> <<>>])
            ELSE upd
        i == SiteIndex(withSite, row.site_content_url)
        entry == [connection_id |-> row.connection_id,
                  username |-> row.updated_username,
                  password |-> row.updated_password]
    IN [withSite EXCEPT ![i].datasources =
            Append(@, [datasource_id |-> row.datasource_id,
                       connections |-> <<entry>>])]

\* The three statements that put one valid row into `updates`.
InsertRow(upd, row) ==
    LET withSite ==
            IF SiteIndex(upd, row.site_content_url) = 0
            THEN Append(upd, [site_content_url |-> row.site_content_url,
                              site_id |-> row.site_id,
                              datasources |-> <<>>])
            ELSE upd
        i == SiteIndex(withSite, row.site_content_url)
        dss == withSite[i].datasources
        withSource ==
            IF SourceIndex(dss, row.datasource_id) = 0
            THEN Append(dss, [datasource_id |-> row.datasource_id,
                              connections |-> <<>>])
            ELSE dss
        j == SourceIndex(withSource, row.datasource_id)
        entry == [connection_id |-> row.connection_id,
                  username |-> row.updated_username,
                  password |-> row.updated_password]
    IN [withSite EXCEPT ![i].datasources =
            [withSource EXCEPT ![j].connections = Append(@, entry)]]

\* Where the run is after one row has been handled: a failed check raises,
\* which ends the loop and the function before anything is sent.
AfterRow(row) == IF ValidateRow(row) = "ok" THEN "ReadRow" ELSE "Aborted"

\* updates = {}; open(path_to_csv, 'r'); reader = csv.DictReader(input_csv)
OpenCsv ==
    /\ pc = "Idle"
    /\ phase' = "update"
    /\ updates' = <<>>
    /\ input_csv' = <<>>
    /\ pc' = "ReadRow"
    /\ UNCHANGED <<error, issued, signedOut, update_token, pos, calls, log>>
    /\ UNCHANGED exportVars

\* One iteration of `for row in reader`: the next row of the file is read,
\* checked and, if it passes, put into `updates`.  input_csv holds the rows
\* read so far.
ReadRow ==
    /\ pc = "ReadRow"
    /\ Len(input_csv) < MaxRows
    /\ \E row \in FileRows :
        /\ input_csv' = Append(input_csv, row)
        /\ pc' = AfterRow(row)
        /\ error' = IF ValidateRow(row) = "ok" THEN error ELSE ValidateRow(row)
        /\ updates' = IF ValidateRow(row) = "ok" THEN InsertRow(updates, row)
                      ELSE updates
    /\ UNCHANGED <<phase, issued, signedOut, update_token, pos, calls, log>>
    /\ UNCHANGED exportVars

\* The reader is exhausted: the file is closed and the update loops start
\* (or, with nothing to update, the function returns).
EndOfFile ==
    /\ pc = "ReadRow"
    /\ pc' = IF updates = <<>> THEN "Done" ELSE "UpdateSignIn"
    /\ pos' = [s |-> 1, d |-> 1, c |-> 1]
    /\ UNCHANGED <<phase, error, issued, signedOut, update_token, input_csv,
                   updates, calls, log>>
    /\ UNCHANGED exportVars

----------------------------------------------------------------------------
(* update_datasources_from_csv: the update loops *)

\* The content URL the sign-in of the update loop is given: the dict key.
UpdateSignInUrl(site_entry) == site_entry.site_content_url

\* The position of the three loops after one connection has been handled.
NextPos(upd, p) ==
    IF p.c < Len(upd[p.s].datasources[p.d].connections)
    THEN [p EXCEPT !.c = p.c + 1]
    ELSE IF p.d < Len(upd[p.s].datasources)
    THEN [p EXCEPT !.d = p.d + 1, !.c = 1]
    ELSE [s |-> p.s + 1, d |-> 1, c |-> 1]

\* AfterUpdate raising when the response has no 'connection'.
AfterUpdate_RaiseOnError(status, upd, p) ==
    IF status = "absent" THEN "Aborted"
    ELSE IF p.c < Len(upd[p.s].datasources[p.d].connections)
            \/ p.d < Len(upd[p.s].datasources) THEN "UpdateConnection"
    ELSE IF p.s < Len(upd) THEN "UpdateSignIn"
    ELSE "Done"

\* What follows the response to a PUT: nothing is raised on either response;
\* the loops go on, and the function returns after the last connection.
AfterUpdate(status, upd, p) ==
    IF NextPos(upd, p).s = p.s THEN "UpdateConnection"
    ELSE IF p.s < Len(upd) THEN "UpdateSignIn"
    ELSE "Done"

\* The line printed for one PUT.
Message(status, site_entry, source_entry, connection) ==
    IF status = "ok"
    THEN [kind |-> "Updated", datasource_id |-> source_entry.datasource_id,
          site_id |-> "", username |-> connection.username]
    ELSE [kind |-> "ERROR", datasource_id |-> source_entry.datasource_id,
          site_id |-> site_entry.site_id, username |-> ""]

\* update_token = get_api_token(USERNAME, PASSWORD, site_content_url)
UpdateSignIn ==
    /\ pc = "UpdateSignIn"
    /\ LET url == PayloadContentUrl(UpdateSignInUrl(updates[pos.s])) IN
       \E status \in {"ok", "malformed"} :
        IF status = "ok"
        THEN /\ issued' = Append(issued, url)
             /\ update_token' = Len(issued) + 1
             /\ calls' = Append(calls, SignInCall(url, "ok", Len(issued) + 1))
             /\ pc' = "UpdateConnection"
             /\ error' = error
        ELSE /\ calls' = Append(calls, SignInCall(url, "malformed", 0))
             /\ pc' = "Aborted"
             /\ error' = KeyError
             /\ UNCHANGED <<issued, update_token>>
    /\ UNCHANGED <<phase, signedOut, input_csv, updates, pos, log>>
    /\ UNCHANGED exportVars

\* PUT .../sites/{site_id}/datasources/{datasource_id}/connections/{id}
\* The response body is a JSON object, with a 'connection' member ("ok") or
\* without one ("absent"); the message is chosen and printed accordingly.
UpdateConnection ==
    /\ pc = "UpdateConnection"
    /\ LET site_data == updates[pos.s]
           datasource_data == site_data.datasources[pos.d]
           connection == datasource_data.connections[pos.c]
       IN \E status \in {"ok", "absent"} :
            /\ calls' = Append(calls,
                   Call("update", update_token, "", site_data.site_id,
                        datasource_data.datasource_id,
                        connection.connection_id, connection.username,
                        connection.password, status, <<>>, 0))
            /\ log' = Append(log, Message(status, site_data, datasource_data,
                                          connection))
            /\ pc' = AfterUpdate(status, updates, pos)
    /\ pos' = NextPos(updates, pos)
    /\ UNCHANGED <<phase, error, issued, signedOut, update_token, input_csv,
                   updates>>
    /\ UNCHANGED exportVars

----------------------------------------------------------------------------
Init ==
    /\ phase = "idle"
    /\ pc = "Idle"
    /\ error = ""
    /\ issued = <<>>
    /\ signedOut = {}
    /\ token = 0
    /\ site_token = 0
    /\ update_token = 0
    /\ sites = <<>>
    /\ site_i = 0
    /\ sources = <<>>
    /\ source_i = 0
    /\ datasources = <<>>
    /\ output_csv = [opened |-> FALSE, rows |-> <<>>]
    /\ input_csv = <<>>
    /\ updates = <<>>
    /\ pos = [s |-> 0, d |-> 0, c |-> 0]
    /\ calls = <<>>
    /\ log = <<>>

Next ==
    \/ BuildSignIn
    \/ GetSites
    \/ LogoutRoot
    \/ SiteSignIn
    \/ ListDatasources
    \/ ListConnections
    \/ LogoutSite
    \/ WriteCsv
    \/ OpenCsv
    \/ ReadRow
    \/ EndOfFile
    \/ UpdateSignIn
    \/ UpdateConnection

Spec == Init /\ [][Next]_vars

\* The script is one sequential process: a run that can take a step takes it.
FairSpec == Spec /\ WF_vars(Next)

----------------------------------------------------------------------------
(* Properties *)

IsSiteOp(c) == c.op \in {"datasources", "connections", "update"}

HasEmptyCell(file) ==
    \E k \in 1..Len(file) :
        file[k].updated_username = "" \/ file[k].updated_password = ""

AllFilled(file) ==
    \A k \in 1..Len(file) :
        /\ file[k].updated_username \notin {"", None}
        /\ file[k].updated_password \notin {"", None}

\* The reader was exhausted without a row failing a check.
FileAccepted ==
    /\ phase = "update"
    /\ pc \notin {"Idle", "ReadRow"}
    /\ AllFilled(input_csv)

SignInsSucceeded ==
    \A k \in 1..Len(calls) : calls[k].op = "signin" => calls[k].status = "ok"

\* C1: an input file with a row whose updated_username or updated_password is
\* empty, wherever the row is, makes the update run fail, and at that point no
\* request (sign-in or PUT) has been issued: none is issued while rows are
\* still being read, and reading a row with an empty cell ends the run.
C1_EmptyCellFailsBeforeAnyCall ==
    /\ (phase = "update" /\ pc = "ReadRow") => (calls = <<>> /\ issued = <<>>)
    /\ (phase = "update" /\ HasEmptyCell(input_csv)) =>
          /\ pc = "Aborted"
          /\ error # ""
          /\ calls = <<>>
          /\ issued = <<>>

C1_Witness ==
    /\ phase = "update"
    /\ pc = "Aborted"
    /\ Len(input_csv) = 2
    /\ input_csv[1].updated_username = "admin"
    /\ input_csv[1].updated_password = "secret"
    /\ input_csv[2].updated_username = "admin"
    /\ input_csv[2].updated_password = ""

IsUpdateOf(c, r) ==
    /\ c.op = "update"
    /\ c.site = r.site_id
    /\ c.ds = r.datasource_id
    /\ c.conn = r.connection_id
    /\ c.user = r.updated_username
    /\ c.pass = r.updated_password

UpdatesOf(r) == Cardinality({k \in 1..Len(calls) : IsUpdateOf(calls[k], r)})

RowsLike(r) == Cardinality({k \in 1..Len(input_csv) : input_csv[k] = r})

UpdateCalls == SelectSeq(calls, LAMBDA c : c.op = "update")

C2_EveryRowAttempted ==
    (FileAccepted /\ SignInsSucceeded) =>
        /\ pc # "Aborted"
        /\ error = ""
        /\ \A r \in Range(input_csv) : UpdatesOf(r) <= RowsLike(r)
        /\ \A k \in 1..Len(calls) :
              calls[k].op = "update" =>
                  \E r \in Range(input_csv) : IsUpdateOf(calls[k], r)
        /\ pc = "Done" =>
              /\ \A r \in Range(input_csv) : UpdatesOf(r) = RowsLike(r)
              /\ Len(UpdateCalls) = Len(input_csv)
        /\ Len(log) = Len(UpdateCalls)
        /\ \A k \in 1..Len(log) :
              log[k].kind = IF UpdateCalls[k].status = "ok" THEN "Updated"
                            ELSE "ERROR"

\* C2: once every row has passed validation and while every sign-in succeeds,
\* each row of the file gets exactly one PUT whatever the earlier PUTs
\* returned: a response without 'connection' is logged as an error, the run is
\* not aborted, and it reaches Done.
C2_UpdatesContinueToDone ==
    /\ []C2_EveryRowAttempted
    /\ FileAccepted ~> (pc = "Done" \/ ~SignInsSucceeded)

C2_Witness ==
    /\ phase = "update"
    /\ pc = "Done"
    /\ Len(UpdateCalls) = 2
    /\ UpdateCalls[1].status = "absent"
    /\ UpdateCalls[2].status = "ok"
    /\ log[1].kind = "ERROR"
    /\ log[2].kind = "Updated"

\* C3: in the update run the session of a site is signed out after that site's
\* last PUT and before the next site's sign-in, so that at Done every token
\* the run obtained has been signed out.
C3_UpdateSessionsSignedOut ==
    phase = "update" =>
        /\ pc = "UpdateSignIn" => Outstanding = {}
        /\ pc = "Done" => Outstanding = {}

\* C4: at most one token is outstanding at any point of either run, except
\* that the export run may hold the token of the site listing together with
\* one site token; two site tokens are never outstanding together.
C4_AtMostOneOutstandingToken ==
    \/ Cardinality(Outstanding) <= 1
    \/ /\ phase = "export"
       /\ Outstanding = {token, site_token}

\* The earlier sign-in that granted the token of calls[j], for content URL url.
GrantedBefore(j, url) ==
    \E k \in 1..(j - 1) :
        /\ calls[k].op = "signin"
        /\ calls[k].status = "ok"
        /\ calls[k].grant = calls[j].token
        /\ calls[k].url = url

SignedOutBefore(j) ==
    \E k \in 1..(j - 1) :
        calls[k].op = "signout" /\ calls[k].token = calls[j].token

\* C5: every request for a site's resources (data source listing, connection
\* listing, PUT) carries a token granted by an earlier sign-in with that site's
\* content URL and not yet signed out; the token of the first sign-in of the
\* export run is used for the site listing only.
C5_TokenScopedToSite ==
    \A j \in 1..Len(calls) :
        /\ IsSiteOp(calls[j]) =>
              /\ GrantedBefore(j, ContentUrl(calls[j].site))
              /\ ~SignedOutBefore(j)
              /\ calls[j].token # token
        /\ calls[j].op = "sites" =>
              /\ calls[j].token = token
              /\ GrantedBefore(j, "")
              /\ ~SignedOutBefore(j)

C5_Witness ==
    /\ pc = "Done"
    /\ \E j, k \in 1..Len(calls) :
        /\ j < k
        /\ IsSiteOp(calls[j])
        /\ IsSiteOp(calls[k])
        /\ calls[j].site = "s2"
        /\ calls[k].site = "s1"
        /\ calls[j].token # calls[k].token

\* The entries the rows of the file give for one site and one data source.
RowEntries(url, id) ==
    LET rows == SelectSeq(input_csv,
                    LAMBDA r : r.site_content_url = url /\ r.datasource_id = id)
    IN [k \in 1..Len(rows) |->
          [connection_id |-> rows[k].connection_id,
           username |-> rows[k].updated_username,
           password |-> rows[k].updated_password]]

RECURSIVE Sum(_)
Sum(ns) == IF ns = <<>> THEN 0 ELSE Head(ns) + Sum(Tail(ns))

PlanSize ==
    Sum([i \in 1..Len(updates) |->
           Sum([d \in 1..Len(updates[i].datasources) |->
                  Len(updates[i].datasources[d].connections)])])

\* C6: `updates` is the grouping of the rows read: one site entry per
\* site_content_url, under it one data source entry per datasource_id, whose
\* connections are the rows with that URL and id, in file order, each row
\* giving one {connection_id, username, password}; so the number of
\* connection updates is the number of rows.
C6_PlanIsGroupingOfRows ==
    (phase = "update" /\ AllFilled(input_csv)) =>
        /\ PlanSize = Len(input_csv)
        /\ \A a, b \in 1..Len(updates) :
              updates[a].site_content_url = updates[b].site_content_url
                  => a = b
        /\ \A i \in 1..Len(updates) :
              LET dss == updates[i].datasources IN
              /\ dss # <<>>
              /\ \A a, b \in 1..Len(dss) :
                    dss[a].datasource_id = dss[b].datasource_id => a = b
              /\ \A d \in 1..Len(dss) :
                    /\ dss[d].connections # <<>>
                    /\ dss[d].connections =
                          RowEntries(updates[i].site_content_url,
                                     dss[d].datasource_id)
        /\ \A k \in 1..Len(input_csv) :
              \E i \in 1..Len(updates) :
                  /\ updates[i].site_content_url =
                        input_csv[k].site_content_url
                  /\ \E d \in 1..Len(updates[i].datasources) :
                        updates[i].datasources[d].datasource_id =
                            input_csv[k].datasource_id

C6_Witness ==
    /\ phase = "update"
    /\ pc = "UpdateSignIn"
    /\ Len(input_csv) = 2
    /\ input_csv[1].connection_id = "c2"
    /\ input_csv[2].connection_id = "c1"
    /\ Len(updates) = 1
    /\ Len(updates[1].datasources) = 1
    /\ Len(updates[1].datasources[1].connections) = 2
    /\ updates[1].datasources[1].connections[1].connection_id = "c2"

\* The connection listings answered with a list, in the order they were made.
ConnectionListings ==
    SelectSeq(calls, LAMBDA c : c.op = "connections" /\ c.status = "ok")

\* The (site, data source, connection) triples those listings hold, in order.
RECURSIVE Listed(_)
Listed(cs) ==
    IF cs = <<>> THEN <<>>
    ELSE [k \in 1..Len(Head(cs).items) |->
             [site_id |-> Head(cs).site,
              datasource_id |-> Head(cs).ds,
              connection_id |-> Head(cs).items[k]]] \o Listed(Tail(cs))

RecordKey(r) ==
    [site_id |-> r.site_id,
     datasource_id |-> r.datasource_id,
     connection_id |-> r.connection_id]

\* The listing of sites, and the data source listing made for a site.
SiteListing == {k \in 1..Len(calls) : calls[k].op = "sites"}

SourceListings(site_id) ==
    {k \in 1..Len(calls) :
        calls[k].op = "datasources" /\ calls[k].site = site_id}

\* C7: the export run holds exactly one record per connection the listings
\* returned, in listing order: its site is in the site listing, its data
\* source in that site's data source listing, its connection in that data
\* source's connection listing; once enumeration is over no listed site, data
\* source or connection is left out or doubled; updated_username and
\* updated_password are empty in every record and in every row written.
C7_OneRecordPerListedConnection ==
    phase = "export" =>
        /\ [k \in 1..Len(datasources) |-> RecordKey(datasources[k])]
              = Listed(ConnectionListings)
        /\ \A k \in 1..Len(datasources) :
              /\ datasources[k].updated_username = None
              /\ datasources[k].updated_password = None
              /\ datasources[k].site_content_url
                    = ContentUrl(datasources[k].site_id)
        /\ \A j \in 1..Len(calls) :
              calls[j].op = "connections" =>
                  /\ \E k \in SiteListing :
                        k < j /\ calls[j].site \in Range(calls[k].items)
                  /\ \E k \in SourceListings(calls[j].site) :
                        k < j /\ calls[j].ds \in Range(calls[k].items)
        /\ pc \in {"WriteCsv", "Done"} =>
              /\ \A k \in SiteListing : \A site_id \in Range(calls[k].items) :
                    Cardinality(SourceListings(site_id)) = 1
              /\ \A k \in 1..Len(calls) :
                    (calls[k].op = "datasources" /\ calls[k].status = "ok") =>
                        \A id \in Range(calls[k].items) :
                            Cardinality({j \in 1..Len(calls) :
                                /\ calls[j].op = "connections"
                                /\ calls[j].site = calls[k].site
                                /\ calls[j].ds = id}) = 1
        /\ output_csv.opened =>
              /\ Len(output_csv.rows) = Len(datasources)
              /\ \A k \in 1..Len(datasources) :
                    /\ RecordKey(output_csv.rows[k])
                          = RecordKey(datasources[k])
                    /\ output_csv.rows[k].updated_username = ""
                    /\ output_csv.rows[k].updated_password = ""

C7_Witness ==
    /\ phase = "export"
    /\ pc = "Done"
    /\ Len(datasources) = 3
    /\ datasources[1].site_id = "s2"
    /\ datasources[1].connection_id = "c2"
    /\ datasources[2].connection_id = "c1"
    /\ datasources[2].datasource_id = datasources[1].datasource_id
    /\ datasources[3].site_id = "s1"
    /\ Len(output_csv.rows) = 3

\* The first row read that lacks a credential (absent or empty), 0 if none.
FirstLacking ==
    LET lacking == {k \in 1..Len(input_csv) :
                      \/ input_csv[k].updated_username \in {"", None}
                      \/ input_csv[k].updated_password \in {"", None}}
    IN IF lacking = {} THEN 0
       ELSE CHOOSE k \in lacking : \A m \in lacking : k <= m

\* C8: a row whose updated_username or updated_password is absent or empty
\* makes the update run fail with the ValueError that names the missing field,
\* the username being checked first.
C8_ValueErrorNamesMissingField ==
    (phase = "update" /\ FirstLacking # 0) =>
        /\ pc = "Aborted"
        /\ error = IF input_csv[FirstLacking].updated_username \in {"", None}
                   THEN UsernameError
                   ELSE PasswordError

\* C9: a data source listing without 'datasource', or a connection listing
\* without 'connection', gives no record and raises nothing: the run goes on
\* with the sign-out of that site's session (or the next data source), and
\* when enumeration is over every listed connection of the other data sources
\* and sites has its record and every session has been signed out.
C9_MissingCollectionIsEmpty ==
    phase = "export" =>
        /\ \A j \in 1..Len(calls) :
              /\ (calls[j].op = "datasources" /\ calls[j].status = "absent") =>
                    /\ \A k \in 1..Len(datasources) :
                          datasources[k].site_id # calls[j].site
                    /\ j = Len(calls) => (pc = "LogoutSite" /\ error = "")
                    /\ j < Len(calls) =>
                          calls[j + 1] = SignOutCall(calls[j].token)
              /\ (calls[j].op = "connections" /\ calls[j].status = "absent") =>
                    /\ \A k \in 1..Len(datasources) :
                          ~ /\ datasources[k].site_id = calls[j].site
                            /\ datasources[k].datasource_id = calls[j].ds
                    /\ j = Len(calls) =>
                          /\ pc \in {"ListConnections", "LogoutSite"}
                          /\ error = ""
                    /\ j < Len(calls) =>
                          \/ calls[j + 1] = SignOutCall(calls[j].token)
                          \/ /\ calls[j + 1].op = "connections"
                             /\ calls[j + 1].site = calls[j].site
                             /\ calls[j + 1].token = calls[j].token
        /\ pc \in {"WriteCsv", "Done"} =>
              /\ Outstanding = {}
              /\ \A j \in 1..Len(calls) :
                    (calls[j].op = "connections" /\ calls[j].status = "ok") =>
                        \A id \in Range(calls[j].items) :
                            \E k \in 1..Len(datasources) :
                                RecordKey(datasources[k]) =
                                    [site_id |-> calls[j].site,
                                     datasource_id |-> calls[j].ds,
                                     connection_id |-> id]

C9_Witness ==
    /\ phase = "export"
    /\ pc = "Done"
    /\ Len(datasources) = 2
    /\ \E j, k, m \in 1..Len(calls) :
        /\ j < k
        /\ k < m
        /\ calls[j].op = "datasources"
        /\ calls[j].status = "absent"
        /\ calls[k].op = "connections"
        /\ calls[k].status = "absent"
        /\ calls[m].op = "connections"
        /\ calls[m].status = "ok"

\* C10: the destination file is opened only when every site has been
\* enumerated and signed out; a sign-in or listing that fails is the last
\* request of the run, and the file is then left as it was.
C10_FileWrittenOnlyAfterEnumeration ==
    phase = "export" =>
        /\ output_csv.opened =>
              /\ pc = "Done"
              /\ error = ""
              /\ Outstanding = {}
              /\ \A site_id \in Range(sites) :
                    Cardinality(SourceListings(site_id)) = 1
        /\ \A j \in 1..Len(calls) :
              calls[j].status = "malformed" =>
                  /\ j = Len(calls)
                  /\ pc = "Aborted"
        /\ pc = "Aborted" =>
              /\ output_csv = [opened |-> FALSE, rows |-> <<>>]
              /\ calls[Len(calls)].status = "malformed"

C10_Witness ==
    /\ phase = "export"
    /\ pc = "Aborted"
    /\ datasources # <<>>
    /\ site_i = 2
    /\ calls[Len(calls)].op = "connections"
    /\ ~output_csv.opened

====
